---- MODULE Spec2Model ----
(***************************************************************************)
(* folly::Try<T>, Try<void>, makeTryWith and unwrapTryTuple                *)
(* (folly/Try-inl.h) as a state machine over a few Try objects.            *)
(*                                                                         *)
(* A Try<T> object is its tag contains_ and the two members of its union,  *)
(* value_ and e_.  A union member that holds no live object is NoObj (for  *)
(* value_) or NoWrapper (for e_), so that the agreement of tag and live    *)
(* member is something the operations establish, not something the         *)
(* encoding gives for free.                                                *)
(***************************************************************************)
EXTENDS Integers, Sequences, FiniteSets, TLC

\* ---------------------------------------------------------------- bounds
\* Number of Try<T> objects (storage slots) the program works with.
NumTry == 2
\* Values of T are 0..MaxVal.
MaxVal == 1
\* Failures (thrown exception objects) are 1..NumFail.
NumFail == 2
\* Arity of the tuples handed to unwrapTryTuple.
TupleSize == 3

Slots == 1..NumTry
\* The program holds one Try<void> object at a time.
VoidSlots == {1}
Values == 0..MaxVal
Failures == 1..NumFail
Positions == 1..TupleSize

\* value_ storage that holds no live T.
NoObj == -1
\* The exception_ptr of an exception_wrapper that holds no exception.
NullPtr == 0
\* Odd failures are of a type derived from std::exception, even ones are not.
IsStd(f) == f % 2 = 1

\* ------------------------------------------------ exception_wrapper
\* An exception_wrapper: the exception it points to and whether it was
\* captured together with a std::exception reference.
Wrapper(p, t) == [ptr |-> p, typed |-> t]
\* A default-constructed (or moved-from) exception_wrapper.
NullWrapper == Wrapper(NullPtr, FALSE)
\* e_ storage that holds no live exception_wrapper.
NoWrapper == Wrapper(NoObj, FALSE)
\* The live exception_wrapper values.
Wrappers ==
  {NullWrapper} \cup {Wrapper(f, FALSE) : f \in Failures}
                \cup {Wrapper(f, TRUE) : f \in {g \in Failures : IsStd(g)}}

\* ------------------------------------------------------------ outcomes
\* What a call hands back to its caller.
\*   none      : the call completed and returns nothing of interest
\*   returned  : the call returned the value val
\*   raised    : the call raised failure err
\*   uninit    : the call raised UsingUninitializedTry
\*   nullraise : the call asked a null exception_wrapper to throw
\*   copythrow : the copy constructor of T raised inside the call
Out(k, v, e) == [kind |-> k, val |-> v, err |-> e]
OutNone == Out("none", NoObj, NullPtr)
OutReturned(v) == Out("returned", v, NullPtr)
OutRaised(f) == Out("raised", NoObj, f)
OutUninit == Out("uninit", NoObj, NullPtr)
OutNullRaise == Out("nullraise", NoObj, NullPtr)
OutCopyThrow == Out("copythrow", NoObj, NullPtr)

\* exception_wrapper::throw_exception: rethrows the held exception.
throw_exception(w) ==
  IF w.ptr \in Failures THEN OutRaised(w.ptr) ELSE OutNullRaise

\* ------------------------------------------------------------- Try<T>
TryRec(c, v, w) == [alive |-> TRUE, contains_ |-> c, value_ |-> v, e_ |-> w]
\* A slot in which no Try object lives.
DeadTry == [alive |-> FALSE, contains_ |-> "NOTHING", value_ |-> NoObj, e_ |-> NoWrapper]

\* Try(): contains_(Contains::NOTHING)
TryDefault == TryRec("NOTHING", NoObj, NoWrapper)
\* Try(T&& v): contains_(Contains::VALUE), value_(std::move(v))
TryFromValue(v) == TryRec("VALUE", v, NoWrapper)
\* Try(exception_wrapper e): contains_(Contains::EXCEPTION), e_(std::move(e))
TryFromException(w) == TryRec("EXCEPTION", NoObj, w)

\* A read of value_ storage: of a destroyed T it yields whatever the build
\* leaves there, g.
ReadValue(x, g) == IF x = NoObj THEN g ELSE x
\* A read of e_ storage, likewise.
ReadWrapper(x, gw) == IF x = NoWrapper THEN gw ELSE x

\* Try<T>::~Try(): destroys the member the tag names, and leaves the tag.
Destruct(self) ==
  IF self.contains_ = "VALUE" THEN [self EXCEPT !.value_ = NoObj]
  ELSE IF self.contains_ = "EXCEPTION" THEN [self EXCEPT !.e_ = NoWrapper]
  ELSE self

\* throwIfFailed() without its default case: an empty Try gets through it.
throwIfFailed_NoDefault(self) ==
  IF self.contains_ = "VALUE" THEN OutNone
  ELSE IF self.contains_ = "EXCEPTION" THEN throw_exception(self.e_)
  ELSE OutNone

\* throwIfFailed() whose EXCEPTION case does not rethrow and falls through to
\* the default case.
throwIfFailed_NoRethrow(self) ==
  IF self.contains_ = "VALUE" THEN OutNone
  ELSE OutUninit

\* throwIfFailed() whose VALUE case misses its return and falls through to
\* the EXCEPTION case, over an exception_wrapper that is not alive.
throwIfFailed_FallThrough(self) ==
  IF self.contains_ \in {"VALUE", "EXCEPTION"} THEN throw_exception(self.e_)
  ELSE OutUninit

\* throwIfFailed() whose EXCEPTION case returns instead of rethrowing: the
\* held failure is swallowed.
throwIfFailed_Swallows(self) ==
  IF self.contains_ \in {"VALUE", "EXCEPTION"} THEN OutNone
  ELSE OutUninit

\* Try<T>::throwIfFailed(): OutNone is its normal return.
throwIfFailed(self) ==
  IF self.contains_ = "VALUE" THEN OutNone
  ELSE IF self.contains_ = "EXCEPTION" THEN throw_exception(self.e_)
  ELSE OutUninit

\* Try<T>::value(), all four overloads: throwIfFailed(), then a reference to
\* value_; g is what a read through that reference finds in dead storage.
value(self, g) ==
  IF throwIfFailed(self) = OutNone THEN OutReturned(ReadValue(self.value_, g))
  ELSE throwIfFailed(self)

\* Whether the member the tag names is dead storage (a read of it is
\* undefined behaviour).
ReadsDead(t) ==
  \/ t.contains_ = "VALUE" /\ t.value_ = NoObj
  \/ t.contains_ = "EXCEPTION" /\ t.e_ = NoWrapper

\* What moving out of a live member leaves behind: a T in the unspecified
\* state mv; an exception_wrapper reset to null (me) or left as it was.
MovedFromValue(x, mv) == IF x = NoObj THEN NoObj ELSE mv
MovedFromWrapper(w, me) == IF w = NoWrapper THEN NoWrapper ELSE IF me THEN NullWrapper ELSE w

\* The move that constructs the member but never sets contains_.
MoveInto_KeepTag(self, t, mv, me, g, gw) ==
  IF t.contains_ = "VALUE" THEN
    [self |-> [self EXCEPT !.value_ = ReadValue(t.value_, g)],
     t |-> [t EXCEPT !.value_ = MovedFromValue(t.value_, mv)]]
  ELSE IF t.contains_ = "EXCEPTION" THEN
    [self |-> [self EXCEPT !.e_ = ReadWrapper(t.e_, gw)],
     t |-> [t EXCEPT !.e_ = MovedFromWrapper(t.e_, me)]]
  ELSE
    [self |-> self, t |-> t]

\* The move that also resets its source: t's member is destroyed and t's tag
\* set to NOTHING.
MoveInto_ResetsSource(self, t, mv, me, g, gw) ==
  IF t.contains_ = "VALUE" THEN
    [self |-> [self EXCEPT !.contains_ = "VALUE", !.value_ = ReadValue(t.value_, g)],
     t |-> [Destruct(t) EXCEPT !.contains_ = "NOTHING"]]
  ELSE IF t.contains_ = "EXCEPTION" THEN
    [self |-> [self EXCEPT !.contains_ = "EXCEPTION", !.e_ = ReadWrapper(t.e_, gw)],
     t |-> [Destruct(t) EXCEPT !.contains_ = "NOTHING"]]
  ELSE
    [self |-> [self EXCEPT !.contains_ = t.contains_], t |-> t]

\* The body shared by the move constructor and move assignment: self adopts
\* t's tag and move-constructs the member it names from t's.
MoveInto(self, t, mv, me, g, gw) ==
  IF t.contains_ = "VALUE" THEN
    [self |-> [self EXCEPT !.contains_ = "VALUE", !.value_ = ReadValue(t.value_, g)],
     t |-> [t EXCEPT !.value_ = MovedFromValue(t.value_, mv)]]
  ELSE IF t.contains_ = "EXCEPTION" THEN
    [self |-> [self EXCEPT !.contains_ = "EXCEPTION", !.e_ = ReadWrapper(t.e_, gw)],
     t |-> [t EXCEPT !.e_ = MovedFromWrapper(t.e_, me)]]
  ELSE
    [self |-> [self EXCEPT !.contains_ = t.contains_], t |-> t]

\* Try<T>::Try(Try<T>&& t) noexcept
MoveCtor(t, mv, me, g, gw) ==
  MoveInto(TryRec("NOTHING", NoObj, NoWrapper), t, mv, me, g, gw)

\* Move assignment without the this == &t test: it destroys the member and
\* then moves from the destroyed member.
MoveAssign_NoSelfCheck(self, t, same, mv, me, g, gw) ==
  LET d == Destruct(self)
      r == MoveInto(d, IF same THEN d ELSE t, mv, me, g, gw)
  IN IF same THEN [self |-> r.self, t |-> r.self] ELSE r

\* Try<T>::operator=(Try<T>&& t) noexcept; same says this == &t.
MoveAssign(self, t, same, mv, me, g, gw) ==
  IF same THEN [self |-> self, t |-> self]
  ELSE MoveInto(Destruct(self), t, mv, me, g, gw)

\* The copy that value-initialises the T, new (&value_) T(), instead of
\* copying t.value_.
CopyInto_DefaultValue(self, t, throws, g, gw) ==
  IF t.contains_ = "VALUE" THEN
    IF throws THEN [self |-> [self EXCEPT !.contains_ = "VALUE"], out |-> OutCopyThrow]
    ELSE [self |-> [self EXCEPT !.contains_ = "VALUE", !.value_ = 0], out |-> OutNone]
  ELSE IF t.contains_ = "EXCEPTION" THEN
    [self |-> [self EXCEPT !.contains_ = "EXCEPTION", !.e_ = ReadWrapper(t.e_, gw)],
     out |-> OutNone]
  ELSE
    [self |-> [self EXCEPT !.contains_ = t.contains_], out |-> OutNone]

\* The body shared by the copy constructor and copy assignment: self adopts
\* t's tag and copy-constructs the member it names; throws says the copy
\* constructor of T raises, which leaves the tag set over dead storage.
CopyInto(self, t, throws, g, gw) ==
  IF t.contains_ = "VALUE" THEN
    IF throws THEN [self |-> [self EXCEPT !.contains_ = "VALUE"], out |-> OutCopyThrow]
    ELSE [self |-> [self EXCEPT !.contains_ = "VALUE", !.value_ = ReadValue(t.value_, g)],
          out |-> OutNone]
  ELSE IF t.contains_ = "EXCEPTION" THEN
    [self |-> [self EXCEPT !.contains_ = "EXCEPTION", !.e_ = ReadWrapper(t.e_, gw)],
     out |-> OutNone]
  ELSE
    [self |-> [self EXCEPT !.contains_ = t.contains_], out |-> OutNone]

\* Try<T>::Try(const Try<T>& t)
CopyCtor(t, throws, g, gw) ==
  CopyInto(TryRec("NOTHING", NoObj, NoWrapper), t, throws, g, gw)

\* Try<T>::operator=(const Try<T>& t): no test of this == &t, so with same
\* the source read is this object after its own destructor ran.
CopyAssign(self, t, same, throws, g, gw) ==
  LET d == Destruct(self)
  IN CopyInto(d, IF same THEN d ELSE t, throws, g, gw)

\* ------------------------------------------------------------ Try<void>
VoidRec(h, w) == [alive |-> TRUE, hasValue_ |-> h, e_ |-> w]
DeadVoid == [alive |-> FALSE, hasValue_ |-> FALSE, e_ |-> NullWrapper]
\* Try<void>(): the result of a void operation that succeeded.
VoidDefault == VoidRec(TRUE, NullWrapper)
\* Try<void>(exception_wrapper e)
VoidFromException(w) == VoidRec(FALSE, w)
\* Try<void>::hasValue() and hasException()
VoidHasValue(t) == t.hasValue_
VoidHasException(t) == ~t.hasValue_ /\ t.e_.ptr # NullPtr
\* A Try<void> that holds neither a success nor a captured failure.
VoidIsEmpty(t) == ~VoidHasValue(t) /\ ~VoidHasException(t)

\* Try<void>::throwIfFailed() with its test inverted.
VoidThrowIfFailed_Inverted(self) ==
  IF self.hasValue_ THEN throw_exception(self.e_) ELSE OutNone

\* Try<void>::throwIfFailed()
VoidThrowIfFailed(self) ==
  IF ~self.hasValue_ THEN throw_exception(self.e_) ELSE OutNone

\* T(): the value-initialised T (for T = Unit, its only value).
DefaultT == 0

\* The conversion without its hasException() test: whatever is not a success
\* is taken to hold a failure.
FromVoid_NoElse(t) ==
  IF VoidHasValue(t) THEN TryRec("VALUE", DefaultT, NoWrapper)
  ELSE TryRec("EXCEPTION", NoObj, t.e_)

\* Try<T>::Try(Try<void> const& t), enabled for T = Unit.
FromVoid(t) ==
  IF VoidHasValue(t) THEN TryRec("VALUE", DefaultT, NoWrapper)
  ELSE IF VoidHasException(t) THEN TryRec("EXCEPTION", NoObj, t.e_)
  ELSE TryRec("NOTHING", NoObj, NoWrapper)

\* ----------------------------------------------------------- makeTryWith
\* A zero-argument operation: it returns v, or throws failure e.
Op(th, v, e) == [throws |-> th, v |-> v, e |-> e]
Ops == {Op(FALSE, v, NullPtr) : v \in Values} \cup {Op(TRUE, NoObj, e) : e \in Failures}

\* One call f(): its outcome, and the number of calls made so far.
Invoke(f, n) ==
  [out |-> IF f.throws THEN OutRaised(f.e) ELSE OutReturned(f.v), calls |-> n + 1]

\* exception_wrapper(std::current_exception(), e) in catch (std::exception& e)
\* and exception_wrapper(std::current_exception()) in catch (...).
CaptureStd(f) == Wrapper(f, TRUE)
CaptureAny(f) == Wrapper(f, FALSE)

\* makeTryWith without its catch (...): a failure that is no std::exception
\* escapes to the caller.
makeTryWith_NoCatchAll(f) ==
  LET r == Invoke(f, 0)
  IN IF r.out.kind = "returned" THEN
       [try |-> TryFromValue(r.out.val), out |-> OutNone, calls |-> r.calls]
     ELSE IF IsStd(r.out.err) THEN
       [try |-> TryFromException(CaptureStd(r.out.err)), out |-> OutNone, calls |-> r.calls]
     ELSE
       [try |-> DeadTry, out |-> r.out, calls |-> r.calls]

\* makeTryWith that calls f() and returns a default-constructed Try.
makeTryWith_DropsValue(f) ==
  LET r == Invoke(f, 0)
  IN IF r.out.kind = "returned" THEN
       [try |-> TryDefault, out |-> OutNone, calls |-> r.calls]
     ELSE IF IsStd(r.out.err) THEN
       [try |-> TryFromException(CaptureStd(r.out.err)), out |-> OutNone, calls |-> r.calls]
     ELSE
       [try |-> TryFromException(CaptureAny(r.out.err)), out |-> OutNone, calls |-> r.calls]

\* makeTryWith(F&& f), invoke_result_t<F> not void.
makeTryWith(f) ==
  LET r == Invoke(f, 0)
  IN IF r.out.kind = "returned" THEN
       [try |-> TryFromValue(r.out.val), out |-> OutNone, calls |-> r.calls]
     ELSE IF IsStd(r.out.err) THEN
       [try |-> TryFromException(CaptureStd(r.out.err)), out |-> OutNone, calls |-> r.calls]
     ELSE
       [try |-> TryFromException(CaptureAny(r.out.err)), out |-> OutNone, calls |-> r.calls]

\* The void makeTryWith that returns the Try<void> built from an empty
\* exception_wrapper when f() fails with something that is no std::exception.
makeTryWithVoid_LosesFailure(f) ==
  LET r == Invoke(f, 0)
  IN IF r.out.kind = "returned" THEN
       [try |-> VoidDefault, out |-> OutNone, calls |-> r.calls]
     ELSE IF IsStd(r.out.err) THEN
       [try |-> VoidFromException(CaptureStd(r.out.err)), out |-> OutNone, calls |-> r.calls]
     ELSE
       [try |-> VoidFromException(NullWrapper), out |-> OutNone, calls |-> r.calls]

\* The void makeTryWith that calls f() a second time from its catch clauses.
makeTryWithVoid_Retry(f) ==
  LET r == Invoke(f, 0)
  IN IF r.out.kind = "returned" THEN
       [try |-> VoidDefault, out |-> OutNone, calls |-> r.calls]
     ELSE LET r2 == Invoke(f, r.calls)
          IN IF r2.out.kind = "returned" THEN
               [try |-> VoidDefault, out |-> OutNone, calls |-> r2.calls]
             ELSE IF IsStd(r2.out.err) THEN
               [try |-> VoidFromException(CaptureStd(r2.out.err)), out |-> OutNone,
                calls |-> r2.calls]
             ELSE
               [try |-> VoidFromException(CaptureAny(r2.out.err)), out |-> OutNone,
                calls |-> r2.calls]

\* makeTryWith(F&& f), invoke_result_t<F> void.
makeTryWithVoid(f) ==
  LET r == Invoke(f, 0)
  IN IF r.out.kind = "returned" THEN
       [try |-> VoidDefault, out |-> OutNone, calls |-> r.calls]
     ELSE IF IsStd(r.out.err) THEN
       [try |-> VoidFromException(CaptureStd(r.out.err)), out |-> OutNone, calls |-> r.calls]
     ELSE
       [try |-> VoidFromException(CaptureAny(r.out.err)), out |-> OutNone, calls |-> r.calls]

\* -------------------------------------------------------- unwrapTryTuple
\* The Try<T> states a tuple element can be constructed in.
TupleElems ==
  {TryDefault} \cup {TryFromValue(v) : v \in Values}
               \cup {TryFromException(w) : w \in Wrappers}
Tuples == [Positions -> TupleElems]

\* The unwrap that calls every accessor before it looks at any failure.
RECURSIVE unwrapTryTupleImpl_NoShortCircuit(_, _, _, _)
unwrapTryTupleImpl_NoShortCircuit(instance, k, acc, log) ==
  IF k > Len(instance) THEN
    LET bad == {p \in 1..Len(instance) : value(instance[p], NoObj).kind # "returned"}
    IN IF bad = {} THEN [out |-> OutNone, result |-> acc, accessed |-> log]
       ELSE [out |-> value(instance[CHOOSE p \in bad : \A q \in bad : p <= q], NoObj),
             result |-> <<>>, accessed |-> log]
  ELSE LET o == value(instance[k], NoObj)
       IN unwrapTryTupleImpl_NoShortCircuit(
            instance, k + 1, IF o.kind = "returned" THEN Append(acc, o.val) ELSE acc,
            Append(log, k))

\* The unwrap that builds its result back to front.
RECURSIVE unwrapTryTupleImpl_Reversed(_, _, _, _)
unwrapTryTupleImpl_Reversed(instance, k, acc, log) ==
  IF k > Len(instance) THEN [out |-> OutNone, result |-> acc, accessed |-> log]
  ELSE LET o == value(instance[k], NoObj)
       IN IF o.kind = "returned"
          THEN unwrapTryTupleImpl_Reversed(instance, k + 1, <<o.val>> \o acc, Append(log, k))
          ELSE [out |-> o, result |-> <<>>, accessed |-> Append(log, k)]

\* The braced initialiser ReturnType{(get<Indices>(instance).value())...}:
\* its elements are evaluated in order, from position k on; acc holds the
\* values unwrapped so far and log the positions whose accessor was called.
RECURSIVE unwrapTryTupleImpl(_, _, _, _)
unwrapTryTupleImpl(instance, k, acc, log) ==
  IF k > Len(instance) THEN [out |-> OutNone, result |-> acc, accessed |-> log]
  ELSE LET o == value(instance[k], NoObj)
       IN IF o.kind = "returned"
          THEN unwrapTryTupleImpl(instance, k + 1, Append(acc, o.val), Append(log, k))
          ELSE [out |-> o, result |-> <<>>, accessed |-> Append(log, k)]

\* unwrapTryTuple(Tuple&& instance)
unwrapTryTuple(instance) == unwrapTryTupleImpl(instance, 1, <<>>, <<>>)

\* ------------------------------------------------------ the state machine
VARIABLES
  tries,   \* the Try<T> objects, by slot
  vtries,  \* the Try<void> objects, by slot
  last     \* the last call: its operands, its inputs and what it handed back

vars == <<tries, vtries, last>>

\* The inputs of a call: a value, an exception_wrapper, an operation.
Arg(v, w, f) == [v |-> v, w |-> w, f |-> f]
NoArg == Arg(NoObj, NoWrapper, Op(FALSE, NoObj, NullPtr))

\* The record of a call.  dst and src are the Try<T> slots it was applied to
\* and vdst the Try<void> slot (0: none); dead says it touched a member that
\* was not alive; calls counts the invocations of the operation it was given.
Call(op, dst, src, vdst, out, dead, calls, arg) ==
  [op |-> op, dst |-> dst, src |-> src, vdst |-> vdst, out |-> out, dead |-> dead,
   calls |-> calls, arg |-> arg, tup |-> <<>>, accessed |-> <<>>, result |-> <<>>]

Init ==
  /\ tries = [i \in Slots |-> DeadTry]
  /\ vtries = [k \in VoidSlots |-> DeadVoid]
  /\ last = Call("init", 0, 0, 0, OutNone, FALSE, 0, NoArg)

\* The end of a Try<T> object's lifetime: its destructor, then its storage.
Ended(t) == [Destruct(t) EXCEPT !.alive = FALSE, !.contains_ = "NOTHING"]

\* ------------------------------------------------------------ Try<T> objects
\* The inputs a call leaves open, cut down to those it can read: what a read
\* of dead storage finds, what a moved-from member is left as, and whether
\* the copy constructor of T raises.
GarbageV(t) == IF t.contains_ = "VALUE" /\ t.value_ = NoObj THEN Values ELSE {0}
GarbageW(t) == IF t.contains_ = "EXCEPTION" /\ t.e_ = NoWrapper THEN Wrappers ELSE {NullWrapper}
MovedV(t) == IF t.contains_ = "VALUE" THEN Values ELSE {0}
MovedW(t) == IF t.contains_ = "EXCEPTION" THEN BOOLEAN ELSE {FALSE}
Throws(t) == IF t.contains_ = "VALUE" THEN BOOLEAN ELSE {FALSE}
\* The object copy assignment reads: with i = j, this object once destroyed.
CopySource(i, j) == IF i = j THEN Destruct(tries[i]) ELSE tries[j]

\* Try<T> t;
DefaultConstruct(i) ==
  /\ ~tries[i].alive
  /\ tries' = [tries EXCEPT ![i] = TryDefault]
  /\ last' = Call("default", i, 0, 0, OutNone, FALSE, 0, NoArg)
  /\ UNCHANGED vtries

\* Try<T> t(v);
ConstructValue(i, v) ==
  /\ ~tries[i].alive
  /\ tries' = [tries EXCEPT ![i] = TryFromValue(v)]
  /\ last' = Call("fromValue", i, 0, 0, OutNone, FALSE, 0, Arg(v, NoWrapper, NoArg.f))
  /\ UNCHANGED vtries

\* Try<T> t(w);
ConstructException(i, w) ==
  /\ ~tries[i].alive
  /\ tries' = [tries EXCEPT ![i] = TryFromException(w)]
  /\ last' = Call("fromException", i, 0, 0, OutNone, FALSE, 0, Arg(NoObj, w, NoArg.f))
  /\ UNCHANGED vtries

\* Try<T> t(std::move(tries[j]));
MoveConstruct(i, j, mv, me, g, gw) ==
  /\ ~tries[i].alive /\ tries[j].alive
  /\ LET r == MoveCtor(tries[j], mv, me, g, gw)
     IN tries' = [tries EXCEPT ![i] = r.self, ![j] = r.t]
  /\ last' = Call("moveCtor", i, j, 0, OutNone, ReadsDead(tries[j]), 0, NoArg)
  /\ UNCHANGED vtries

\* tries[i] = std::move(tries[j]);
MoveAssignOp(i, j, mv, me, g, gw) ==
  /\ tries[i].alive /\ tries[j].alive
  /\ LET r == MoveAssign(tries[i], tries[j], i = j, mv, me, g, gw)
     IN tries' = IF i = j THEN [tries EXCEPT ![i] = r.self]
                 ELSE [tries EXCEPT ![i] = r.self, ![j] = r.t]
  /\ last' = Call("moveAssign", i, j, 0, OutNone,
                  i # j /\ (ReadsDead(tries[i]) \/ ReadsDead(tries[j])), 0, NoArg)
  /\ UNCHANGED vtries

\* Try<T> t(tries[j]);  when the copy of T raises, no object comes to life.
CopyConstruct(i, j, throws, g, gw) ==
  /\ ~tries[i].alive /\ tries[j].alive
  /\ LET r == CopyCtor(tries[j], throws, g, gw)
     IN /\ tries' = IF r.out = OutNone THEN [tries EXCEPT ![i] = r.self] ELSE tries
        /\ last' = Call("copyCtor", i, j, 0, r.out, ReadsDead(tries[j]), 0, NoArg)
  /\ UNCHANGED vtries

\* tries[i] = tries[j];
CopyAssignOp(i, j, throws, g, gw) ==
  /\ tries[i].alive /\ tries[j].alive
  /\ LET r == CopyAssign(tries[i], tries[j], i = j, throws, g, gw)
     IN /\ tries' = [tries EXCEPT ![i] = r.self]
        /\ last' = Call("copyAssign", i, j, 0, r.out,
                        ReadsDead(tries[i]) \/ ReadsDead(CopySource(i, j)),
                        0, NoArg)
  /\ UNCHANGED vtries

\* The end of tries[i]'s lifetime.
Destroy(i) ==
  /\ tries[i].alive
  /\ tries' = [tries EXCEPT ![i] = Ended(tries[i])]
  /\ last' = Call("destroy", i, 0, 0, OutNone, ReadsDead(tries[i]), 0, NoArg)
  /\ UNCHANGED vtries

\* An access that consumes what it reports: a Try whose access raised is
\* left in the NOTHING state.
Value_ConsumesFailure(i, g) ==
  /\ tries[i].alive
  /\ tries' = IF tries[i].contains_ = "EXCEPTION"
              THEN [tries EXCEPT ![i] = TryDefault] ELSE tries
  /\ last' = Call("value", i, 0, 0, value(tries[i], g), ReadsDead(tries[i]), 0, NoArg)
  /\ UNCHANGED vtries

\* tries[i].value(), the result read.
Value(i, g) ==
  /\ tries[i].alive
  /\ last' = Call("value", i, 0, 0, value(tries[i], g), ReadsDead(tries[i]), 0, NoArg)
  /\ UNCHANGED <<tries, vtries>>

\* tries[i].value() = v;  a write through the reference value() & returns.
SetThroughRef(i, v) ==
  /\ tries[i].alive
  /\ LET o == throwIfFailed(tries[i])
     IN /\ tries' = IF o = OutNone /\ tries[i].value_ # NoObj
                    THEN [tries EXCEPT ![i].value_ = v] ELSE tries
        /\ last' = Call("setThroughRef", i, 0, 0, o, ReadsDead(tries[i]), 0,
                        Arg(v, NoWrapper, NoArg.f))
  /\ UNCHANGED vtries

\* T x(std::move(tries[i]).value());  the value moved out through value() &&.
TakeValue(i, mv, g) ==
  /\ tries[i].alive
  /\ LET o == value(tries[i], g)
     IN /\ tries' = IF o.kind = "returned"
                    THEN [tries EXCEPT ![i].value_ = MovedFromValue(@, mv)] ELSE tries
        /\ last' = Call("takeValue", i, 0, 0, o, ReadsDead(tries[i]), 0, NoArg)
  /\ UNCHANGED vtries

\* Try<Unit> t(vtries[k]);
ConvertFromVoid(i, k) ==
  /\ ~tries[i].alive /\ vtries[k].alive
  /\ tries' = [tries EXCEPT ![i] = FromVoid(vtries[k])]
  /\ last' = Call("fromVoid", i, 0, k, OutNone, FALSE, 0, NoArg)
  /\ UNCHANGED vtries

\* The Try<void> states a temporary can be constructed in.
VoidStates == {VoidDefault} \cup {VoidFromException(w) : w \in Wrappers}

\* Try<Unit> t(Try<void>(...));  the conversion from a temporary t.
ConvertFromTemporary(i, t) ==
  /\ ~tries[i].alive
  /\ tries' = [tries EXCEPT ![i] = FromVoid(t)]
  /\ last' = Call("fromVoidTemporary", i, 0, 0, OutNone, FALSE, 0,
                  Arg(IF t.hasValue_ THEN DefaultT ELSE NoObj, t.e_, NoArg.f))
  /\ UNCHANGED vtries

\* auto t = makeTryWith(f);  a failure that escapes leaves no Try behind.
MakeTryWithOp(i, f) ==
  /\ ~tries[i].alive
  /\ LET r == makeTryWith(f)
     IN /\ tries' = IF r.out = OutNone THEN [tries EXCEPT ![i] = r.try] ELSE tries
        /\ last' = Call("makeTryWith", i, 0, 0, r.out, FALSE, r.calls, Arg(NoObj, NoWrapper, f))
  /\ UNCHANGED vtries

\* Try<void> t;
VoidConstruct(k) ==
  /\ ~vtries[k].alive
  /\ vtries' = [vtries EXCEPT ![k] = VoidDefault]
  /\ last' = Call("voidDefault", 0, 0, k, OutNone, FALSE, 0, NoArg)
  /\ UNCHANGED tries

\* Try<void> t(w);
VoidConstructException(k, w) ==
  /\ ~vtries[k].alive
  /\ vtries' = [vtries EXCEPT ![k] = VoidFromException(w)]
  /\ last' = Call("voidFromException", 0, 0, k, OutNone, FALSE, 0, Arg(NoObj, w, NoArg.f))
  /\ UNCHANGED tries

\* The end of vtries[k]'s lifetime.
VoidDestroy(k) ==
  /\ vtries[k].alive
  /\ vtries' = [vtries EXCEPT ![k] = DeadVoid]
  /\ last' = Call("voidDestroy", 0, 0, k, OutNone, FALSE, 0, NoArg)
  /\ UNCHANGED tries

\* vtries[k].value(), which is throwIfFailed().
VoidValue(k) ==
  /\ vtries[k].alive
  /\ last' = Call("voidValue", 0, 0, k, VoidThrowIfFailed(vtries[k]), FALSE, 0, NoArg)
  /\ UNCHANGED <<tries, vtries>>

\* auto t = makeTryWith(f);  f returns void.
MakeTryWithVoidOp(k, f) ==
  /\ ~vtries[k].alive
  /\ LET r == makeTryWithVoid(f)
     IN /\ vtries' = IF r.out = OutNone THEN [vtries EXCEPT ![k] = r.try] ELSE vtries
        /\ last' = Call("makeTryWithVoid", 0, 0, k, r.out, FALSE, r.calls, Arg(NoObj, NoWrapper, f))
  /\ UNCHANGED tries

Next ==
  \/ \E i \in Slots : DefaultConstruct(i)
  \/ \E i \in Slots, v \in Values : ConstructValue(i, v)
  \/ \E i \in Slots, w \in Wrappers : ConstructException(i, w)
  \/ \E i, j \in Slots : \E mv \in MovedV(tries[j]), me \in MovedW(tries[j]),
                            g \in GarbageV(tries[j]), gw \in GarbageW(tries[j]) :
       MoveConstruct(i, j, mv, me, g, gw)
  \/ \E i, j \in Slots : \E mv \in MovedV(tries[j]), me \in MovedW(tries[j]),
                            g \in GarbageV(tries[j]), gw \in GarbageW(tries[j]) :
       MoveAssignOp(i, j, mv, me, g, gw)
  \/ \E i, j \in Slots : \E throws \in Throws(tries[j]),
                            g \in GarbageV(tries[j]), gw \in GarbageW(tries[j]) :
       CopyConstruct(i, j, throws, g, gw)
  \/ \E i, j \in Slots : \E throws \in Throws(tries[j]),
                            g \in GarbageV(CopySource(i, j)), gw \in GarbageW(CopySource(i, j)) :
       CopyAssignOp(i, j, throws, g, gw)
  \/ \E i \in Slots : Destroy(i)
  \/ \E i \in Slots : \E g \in GarbageV(tries[i]) : Value(i, g)
  \/ \E i \in Slots, v \in Values : SetThroughRef(i, v)
  \/ \E i \in Slots : \E mv \in MovedV(tries[i]), g \in GarbageV(tries[i]) : TakeValue(i, mv, g)
  \/ \E i \in Slots, f \in Ops : MakeTryWithOp(i, f)
  \/ \E i \in Slots, t \in VoidStates : ConvertFromTemporary(i, t)

Spec == Init /\ [][Next]_vars

\* ------------------------------------- Try<void> and its conversion, on their own
\* The Try<void> object, the Try objects converted from it or made by
\* makeTryWith, and what their accessors hand back.
NextVoid ==
  \/ \E k \in VoidSlots : VoidConstruct(k)
  \/ \E k \in VoidSlots, w \in Wrappers : VoidConstructException(k, w)
  \/ \E k \in VoidSlots : VoidDestroy(k)
  \/ \E k \in VoidSlots : VoidValue(k)
  \/ \E k \in VoidSlots, f \in Ops : MakeTryWithVoidOp(k, f)
  \/ \E i \in Slots, f \in Ops : MakeTryWithOp(i, f)
  \/ \E i \in Slots, k \in VoidSlots : ConvertFromVoid(i, k)
  \/ \E i \in Slots : Destroy(i)
  \/ \E i \in Slots : \E g \in GarbageV(tries[i]) : Value(i, g)

SpecVoid == Init /\ [][NextVoid]_vars

\* ------------------------------------------- unwrapTryTuple, on its own
\* A tuple of freshly constructed Try objects, about to be unwrapped.
InitUnwrap ==
  /\ tries = [i \in Slots |-> DeadTry]
  /\ vtries = [k \in VoidSlots |-> DeadVoid]
  /\ \E instance \in Tuples :
       last = [Call("tuple", 0, 0, 0, OutNone, FALSE, 0, NoArg) EXCEPT !.tup = instance]

\* unwrapTryTuple(last.tup)
UnwrapTryTuple ==
  /\ last.op = "tuple"
  /\ LET r == unwrapTryTuple(last.tup)
     IN last' = [Call("unwrap", 0, 0, 0, r.out, FALSE, 0, NoArg)
                   EXCEPT !.tup = last.tup, !.accessed = r.accessed, !.result = r.result]
  /\ UNCHANGED <<tries, vtries>>

NextUnwrap == UnwrapTryTuple

SpecUnwrap == InitUnwrap /\ [][NextUnwrap]_vars

\* ---------------------------------------------------------------- claims
\* What the accessor actions are called in last.op.
AccessOps == {"value", "setThroughRef", "takeValue"}

\* A Try<T> in one of the three states of the data model: the member its tag
\* names is alive and the other is not.
WellFormed(t) ==
  /\ t.alive
  /\ (t.value_ # NoObj) <=> (t.contains_ = "VALUE")
  /\ (t.e_ # NoWrapper) <=> (t.contains_ = "EXCEPTION")

\* C1: every value access on a Try<T> whose state is Empty raises
\* UsingUninitializedTry: it returns no value and raises nothing else.
C1_EmptyAccessRaisesUninit ==
  (last.op \in AccessOps /\ tries[last.dst].contains_ = "NOTHING")
    => last.out = OutUninit

\* C1 witness: value() was called on a live Empty Try and raised the
\* uninitialized-access error.
C1_Witness ==
  /\ last.op = "value"
  /\ tries[last.dst].alive /\ tries[last.dst].contains_ = "NOTHING"
  /\ last.out = OutUninit

\* C2: a Try<T> constructed from a captured failure e is in state HasError
\* holding e, and value access on a Try holding e re-raises exactly e, never
\* returning a value and never raising the uninitialized-access error.
C2_ErrorAccessReraises ==
  /\ (last.op = "fromException" /\ last.arg.w.ptr \in Failures)
       => /\ tries[last.dst].alive
          /\ tries[last.dst].contains_ = "EXCEPTION"
          /\ tries[last.dst].e_ = last.arg.w
          /\ value(tries[last.dst], 0) = OutRaised(last.arg.w.ptr)
  /\ (/\ last.op \in AccessOps
      /\ tries[last.dst].contains_ = "EXCEPTION"
      /\ tries[last.dst].e_.ptr \in Failures)
       => last.out = OutRaised(tries[last.dst].e_.ptr)

\* C2 witness: value() on a Try holding a captured failure raised it.
C2_Witness ==
  /\ last.op = "value"
  /\ tries[last.dst].contains_ = "EXCEPTION"
  /\ last.out.kind = "raised"
  /\ last.out.err = tries[last.dst].e_.ptr

C4_MoveAdoptsState ==
  [][ (/\ last'.op \in {"moveCtor", "moveAssign"}
       /\ WellFormed(tries[last'.src])
       /\ last'.op = "moveAssign" => WellFormed(tries[last'.dst]))
      => /\ last'.out = OutNone
         /\ tries'[last'.dst] = tries[last'.src]
         /\ WellFormed(tries'[last'.src])
         /\ Ended(tries'[last'.src]) = DeadTry ]_vars

\* C4 witness: a move assignment between two objects gave the destination a
\* value and left a source that is still well formed.
C4_Witness ==
  /\ last.op = "moveAssign" /\ last.dst # last.src /\ ~last.dead
  /\ tries[last.dst].contains_ = "VALUE" /\ WellFormed(tries[last.dst])
  /\ tries[last.src].contains_ = "VALUE" /\ WellFormed(tries[last.src])

\* C5: a copy construction or copy assignment of b from a, once completed,
\* leaves b with a's tag and payload and a as it was; and every later
\* operation changes only the objects it is applied to, so that operations on
\* b leave a unchanged and operations on a leave b unchanged.
C5_CopyIndependent ==
  [][ /\ (/\ last'.op \in {"copyCtor", "copyAssign"}
          /\ last'.dst # last'.src
          /\ last'.out = OutNone
          /\ WellFormed(tries[last'.src])
          /\ last'.op = "copyAssign" => WellFormed(tries[last'.dst]))
         => /\ tries'[last'.dst] = tries[last'.src]
            /\ tries'[last'.src] = tries[last'.src]
      /\ \A k \in Slots : k \notin {last'.dst, last'.src} => tries'[k] = tries[k] ]_vars

\* C5 witness: a completed copy assignment between two objects left both
\* holding the same value.
C5_Witness ==
  /\ last.op = "copyAssign" /\ last.dst # last.src /\ last.out = OutNone
  /\ tries[last.dst].contains_ = "VALUE" /\ WellFormed(tries[last.dst])
  /\ tries[last.dst] = tries[last.src]

\* C6: a Try<T> constructed from a value v is in state HasValue, and value()
\* on a Try holding v returns v and raises nothing.
C6_ValueAccessReturns ==
  /\ last.op = "fromValue"
       => /\ tries[last.dst].alive
          /\ tries[last.dst].contains_ = "VALUE"
          /\ value(tries[last.dst], 0) = OutReturned(last.arg.v)
  /\ (/\ last.op = "value"
      /\ tries[last.dst].contains_ = "VALUE"
      /\ tries[last.dst].value_ # NoObj)
       => last.out = OutReturned(tries[last.dst].value_)

\* C6 witness: value() on a Try holding a value returned it.
C6_Witness ==
  /\ last.op = "value"
  /\ tries[last.dst].contains_ = "VALUE" /\ WellFormed(tries[last.dst])
  /\ last.out = OutReturned(tries[last.dst].value_)

\* The positions of a tuple whose Try does not hold a value.
Failing(tup) == {p \in 1..Len(tup) : tup[p].contains_ # "VALUE"}
\* The first of them.
FirstFailing(tup) == CHOOSE p \in Failing(tup) : \A q \in Failing(tup) : p <= q
\* The positions 1..n, in order.
UpTo(n) == [q \in 1..n |-> q]

\* C7: unwrapTryTuple calls the accessors of the positions from left to right
\* and stops at the first position that is HasError or Empty: it raises that
\* position's failure, returns no partial result and calls no later accessor.
C7_UnwrapShortCircuits ==
  last.op = "unwrap" =>
    IF Failing(last.tup) = {} THEN last.accessed = UpTo(Len(last.tup))
    ELSE LET p == FirstFailing(last.tup)
         IN /\ last.accessed = UpTo(p)
            /\ last.result = <<>>
            /\ last.tup[p].contains_ = "NOTHING" => last.out = OutUninit
            /\ (last.tup[p].contains_ = "EXCEPTION" /\ last.tup[p].e_.ptr \in Failures)
                 => last.out = OutRaised(last.tup[p].e_.ptr)
            /\ last.out.kind \notin {"none", "returned"}

\* C7 witness: a tuple with a value at its first position, a captured failure
\* at its second and a further position behind was unwrapped, and only the
\* first two accessors were called.
C7_Witness ==
  /\ last.op = "unwrap" /\ Len(last.tup) >= 3
  /\ last.tup[1].contains_ = "VALUE"
  /\ last.tup[2].contains_ = "EXCEPTION" /\ last.tup[2].e_.ptr \in Failures
  /\ last.accessed = <<1, 2>>
  /\ last.out = OutRaised(last.tup[2].e_.ptr)

\* C8: unwrapTryTuple on a tuple whose positions all hold a value raises
\* nothing and returns a tuple of the same arity whose element at each
\* position is the value held at that position.
C8_UnwrapAllValues ==
  (last.op = "unwrap" /\ Failing(last.tup) = {})
    => /\ last.out = OutNone
       /\ Len(last.result) = Len(last.tup)
       /\ \A p \in 1..Len(last.tup) : last.result[p] = last.tup[p].value_

\* C8 witness: a tuple of values that differ between its first and last
\* position was unwrapped.
C8_Witness ==
  /\ last.op = "unwrap" /\ Failing(last.tup) = {}
  /\ last.tup[1].value_ # last.tup[Len(last.tup)].value_
  /\ Len(last.result) = Len(last.tup)
  /\ last.result[1] = last.tup[1].value_

\* C9: makeTryWith(op), for an op that raises e, of a std::exception type or
\* not, lets nothing escape to its caller and returns a Try in state HasError
\* whose value() re-raises exactly e.
C9_MakeTryWithCaptures ==
  (last.op = "makeTryWith" /\ last.arg.f.throws)
    => /\ last.out = OutNone
       /\ tries[last.dst].alive
       /\ tries[last.dst].contains_ = "EXCEPTION"
       /\ tries[last.dst].e_ = Wrapper(last.arg.f.e, IsStd(last.arg.f.e))
       /\ value(tries[last.dst], 0) = OutRaised(last.arg.f.e)

\* C9 witness: makeTryWith captured a failure that is no std::exception.
C9_Witness ==
  /\ last.op = "makeTryWith" /\ last.arg.f.throws /\ ~IsStd(last.arg.f.e)
  /\ tries[last.dst].contains_ = "EXCEPTION"
  /\ tries[last.dst].e_.ptr = last.arg.f.e

\* C10: makeTryWith(op), for an op that returns v and raises nothing, returns
\* a Try in state HasValue whose value is v.
C10_MakeTryWithValue ==
  (last.op = "makeTryWith" /\ ~last.arg.f.throws)
    => /\ last.out = OutNone
       /\ tries[last.dst].alive
       /\ tries[last.dst].contains_ = "VALUE"
       /\ tries[last.dst].value_ = last.arg.f.v
       /\ tries[last.dst].e_ = NoWrapper

\* C10 witness: makeTryWith wrapped the value 1 that its operation returned.
C10_Witness ==
  /\ last.op = "makeTryWith" /\ ~last.arg.f.throws /\ last.arg.f.v = 1
  /\ WellFormed(tries[last.dst]) /\ tries[last.dst].value_ = 1

\* C11: makeTryWith(op) for a void op lets nothing escape; when op returned
\* normally its Try<void> is in the has-value state and value access raises
\* nothing; when op raised e it holds e and value access re-raises e; it is
\* never a Try<void> that holds neither.
C11_MakeTryWithVoid ==
  last.op = "makeTryWithVoid" =>
    LET t == vtries[last.vdst]
    IN /\ last.out = OutNone
       /\ t.alive
       /\ ~VoidIsEmpty(t)
       /\ ~last.arg.f.throws => (t.hasValue_ /\ VoidThrowIfFailed(t) = OutNone)
       /\ last.arg.f.throws
            => /\ ~t.hasValue_
               /\ t.e_ = Wrapper(last.arg.f.e, IsStd(last.arg.f.e))
               /\ VoidThrowIfFailed(t) = OutRaised(last.arg.f.e)

\* C11 witness: the void makeTryWith captured a failure that is no
\* std::exception.
C11_Witness ==
  /\ last.op = "makeTryWithVoid" /\ last.arg.f.throws /\ ~IsStd(last.arg.f.e)
  /\ vtries[last.vdst].alive /\ ~vtries[last.vdst].hasValue_
  /\ vtries[last.vdst].e_.ptr = last.arg.f.e

\* C12: every makeTryWith, of either overload and on the normal path as on
\* each capturing path, has called its operation exactly once.
C12_InvokedOnce ==
  last.op \in {"makeTryWith", "makeTryWithVoid"} => last.calls = 1

\* C12 witness: a void makeTryWith whose operation raised has called it once.
C12_Witness ==
  /\ last.op = "makeTryWithVoid" /\ last.arg.f.throws
  /\ last.calls = 1

\* C13: a captured failure is inert until the value is demanded: no call
\* other than a value access (construction, copy, move, assignment,
\* conversion, destruction) raises a held failure, or any error of Try; a
\* value access on a Try holding failure e raises e, once, and leaves the
\* Try holding e.
C13_FailureInert ==
  [][ /\ last'.op \notin AccessOps
           => last'.out.kind \notin {"raised", "nullraise", "uninit"}
      /\ (/\ last'.op \in AccessOps
          /\ tries[last'.dst].contains_ = "EXCEPTION"
          /\ tries[last'.dst].e_.ptr \in Failures)
           => /\ last'.out = OutRaised(tries[last'.dst].e_.ptr)
              /\ tries'[last'.dst] = tries[last'.dst] ]_vars

\* C13 witness: a Try holding a failure was copied into another object and
\* nothing was raised.
C13_Witness ==
  /\ last.op = "copyAssign" /\ last.dst # last.src /\ last.out = OutNone
  /\ tries[last.src].contains_ = "EXCEPTION" /\ tries[last.src].e_.ptr \in Failures
  /\ tries[last.dst] = tries[last.src]

\* C14: the tag and the live storage of every Try<T> agree in every
\* reachable state: value_ is alive iff the tag is VALUE, e_ is alive iff the
\* tag is EXCEPTION, and neither is alive when the tag is NOTHING.  Stated
\* step by step: every call that starts with all objects in agreement and
\* touches no dead member, a copy assignment whose value copy raises
\* included, ends with all objects in agreement.
C14_TagMatchesStorage ==
  [][ (/\ \A i \in Slots : tries[i].alive => WellFormed(tries[i])
       /\ ~last'.dead)
      => \A i \in Slots : tries'[i].alive => WellFormed(tries'[i]) ]_vars

\* C15: every member constructed inside a Try is destroyed exactly once: a
\* destructor run, inside an assignment or at the end of the object, finds
\* the member its tag names alive, and an object that has ended leaves no
\* member alive.
C15_DestroyedExactlyOnce ==
  [][ /\ (\/ last'.op \in {"destroy", "copyAssign"}
          \/ last'.op = "moveAssign" /\ last'.dst # last'.src)
           => ~ReadsDead(tries[last'.dst])
      /\ \A i \in Slots : ~tries'[i].alive => tries'[i] = DeadTry ]_vars

\* C16: copy-assigning a Try<T> to itself, in any of the three states, leaves
\* its tag and payload unchanged and reads no member that has already been
\* destroyed.
C16_SelfCopyAssign ==
  [][ (/\ last'.op = "copyAssign"
       /\ last'.dst = last'.src
       /\ WellFormed(tries[last'.dst]))
      => /\ tries' = tries
         /\ ~last'.dead ]_vars

\* C17: move-assigning a Try<T> to itself is a no-op: tag and payload are as
\* before, and no member is destroyed, moved from or read.
C17_SelfMoveAssign ==
  [][ (last'.op = "moveAssign" /\ last'.dst = last'.src)
      => /\ tries' = tries
         /\ ~last'.dead
         /\ last'.out = OutNone ]_vars

C17_Witness ==
  /\ last.op = "moveAssign"
  /\ last.dst = last.src
  /\ tries[last.dst].contains_ = "VALUE"
  /\ tries[last.dst].value_ \in Values

\* C18: converting a Try<void> to a Try<Unit> maps states one to one: a
\* success yields VALUE holding the Unit value, a failure yields EXCEPTION
\* holding the same captured failure, a Try<void> that is neither yields
\* NOTHING; the source Try<void> is unchanged.
C18_FromVoid ==
  [][ last'.op = "fromVoid"
      => LET s == vtries[last'.vdst]
             d == tries'[last'.dst]
         IN /\ vtries' = vtries
            /\ d.alive
            /\ last'.out = OutNone
            /\ VoidHasValue(s) => d = TryRec("VALUE", DefaultT, NoWrapper)
            /\ VoidHasException(s) => d = TryRec("EXCEPTION", NoObj, s.e_)
            /\ VoidIsEmpty(s) => d = TryRec("NOTHING", NoObj, NoWrapper) ]_vars

C18_Witness ==
  /\ last.op = "fromVoid"
  /\ VoidIsEmpty(vtries[last.vdst])
  /\ tries[last.dst] = TryRec("NOTHING", NoObj, NoWrapper)

\* C19: the value accessor never changes the tag of a Try<T>: on VALUE it
\* gives access to the value with no other effect, and on EXCEPTION or
\* NOTHING the failed access leaves the Try as it was, with the same captured
\* failure, so that repeating the access yields the same outcome.
C19_AccessKeepsTag ==
  [][ last'.op \in AccessOps
      => LET t == tries[last'.dst]
             u == tries'[last'.dst]
         IN /\ u.alive
            /\ u.contains_ = t.contains_
            /\ \A j \in Slots \ {last'.dst} : tries'[j] = tries[j]
            /\ vtries' = vtries
            /\ last'.op = "value" => tries' = tries
            /\ t.contains_ # "VALUE"
                 => /\ u = t
                    /\ last'.out.kind \in {"raised", "nullraise", "uninit"}
                    /\ throwIfFailed(u) = last'.out ]_vars

C19_Witness ==
  /\ last.op = "value"
  /\ tries[last.dst].contains_ = "EXCEPTION"
  /\ tries[last.dst].e_.ptr \in Failures
  /\ last.out = OutRaised(tries[last.dst].e_.ptr)

\* C20: after a move construction or a move assignment the source keeps the
\* tag it had: a VALUE source is VALUE over a moved-from value, an EXCEPTION
\* source is still EXCEPTION; the move never resets the source to NOTHING.
C20_MoveKeepsSourceTag ==
  [][ last'.op \in {"moveCtor", "moveAssign"}
      => /\ tries'[last'.src].alive
         /\ tries'[last'.src].contains_ = tries[last'.src].contains_ ]_vars

C20_Witness ==
  /\ last.op \in {"moveCtor", "moveAssign"}
  /\ last.dst # last.src
  /\ tries[last.dst].contains_ = "VALUE"
  /\ tries[last.src].contains_ = "VALUE"
  /\ tries[last.src].value_ \in Values

====
